---- MODULE Spec2Model ----
(***************************************************************************)
(* A model of the facial-emotion training harness: main.py (the attempt    *)
(* loop of main, test, dataset_details, NeuralNetwork.__init__) and        *)
(* model_builder.py (define_layers, define_loss, define_optimizer).        *)
(*                                                                         *)
(* Spec       main as the source has it.                                   *)
(* SpecBuilt  main under the hypothesis "model construction succeeds":     *)
(*            the call of define_layers is given an architecture name.     *)
(* SpecFn     the pure functions, applied to inputs drawn from bounded     *)
(*            sets.                                                        *)
(***************************************************************************)
EXTENDS Integers, Sequences, FiniteSets

VARIABLES
    attempts,       \* --attempts as parsed, a["attempts"]
    name, epochs, batch, load, att,   \* the parameters of main
    layers_args,    \* the arguments NeuralNetwork.__init__ gives define_layers
    pc,             \* where main is: "main", "loop", "returned", "done", "raised"
    data,           \* whether Data.csv was read
    attempt,        \* the iterations of the attempt loop begun so far
    disk,           \* Models/<name>.pt, runs/Current, runs/<name>, ModelParameters/<name>.txt
    disk0,          \* the disk as main found it
    last,           \* what the latest attempt did
    best,           \* the most correct predictions of any model tested in an attempt
    call,           \* SpecFn: the pending call, [fn, ...arguments]
    ret             \* SpecFn: what the call returned or raised

args == <<attempts, name, epochs, batch, load, att, layers_args>>
mainvars == <<args, pc, data, attempt, disk, disk0, last, best>>
vars == <<mainvars, call, ret>>

\* ------------------------------------------------------------------ bounds

MaxN == 5           \* largest test dataset of a call of test
MaxBatch == 3       \* largest batch size of a call of test
MaxLabels == 3      \* longest label sequence given to dataset_details
MaxAtt == 3         \* largest --attempts
MaxEpochs == 1      \* largest --epoch
MainBatch == 2      \* largest --batch of a run of main
TestSize == 2       \* rows of Data.csv whose Usage is not Training

\* ----------------------------------------------------------------- strings
\* A Python str is a sequence of one-character strings.

Upper == <<"A","B","C","D","E","F","G","H","I","J","K","L","M",
           "N","O","P","Q","R","S","T","U","V","W","X","Y","Z">>
Lower == <<"a","b","c","d","e","f","g","h","i","j","k","l","m",
           "n","o","p","q","r","s","t","u","v","w","x","y","z">>

\* str.lower() on one character: a cased letter maps to lowercase, the rest stay.
lower_char(c) ==
    IF \E i \in 1..26 : Upper[i] = c
    THEN Lower[CHOOSE i \in 1..26 : Upper[i] = c]
    ELSE c

\* str.lower()
lower(s) == [i \in 1..Len(s) |-> lower_char(s[i])]

upper_char(c) ==
    IF \E i \in 1..26 : Lower[i] = c
    THEN Upper[CHOOSE i \in 1..26 : Lower[i] = c]
    ELSE c

Simple == <<"s","i","m","p","l","e">>
Expanded == <<"e","x","p","a","n","d","e","d">>
Resnet == <<"r","e","s","n","e","t">>

\* word with the letters at the positions in mask in upper case
Cased(word, mask) ==
    [i \in 1..Len(word) |-> IF i \in mask THEN upper_char(word[i]) ELSE word[i]]

NoCall == [fn |-> "none"]
Pending == [state |-> "pending"]

\* --------------------------------------------------------- model_builder.py

simple_network == [net |-> "simple_network"]
expanded_network == [net |-> "expanded_network"]
resnet_network == [net |-> "resnet_network"]

\* A raised exception, as a value.
Raised(exc) == [raised |-> exc]
IsRaised(v) == "raised" \in DOMAIN v

\* define_layers without name.lower(): the name is compared as given.
define_layers_case_sensitive(arch) ==
    IF arch = Simple THEN simple_network
    ELSE IF arch = Expanded THEN expanded_network
    ELSE IF arch = Resnet THEN resnet_network
    ELSE Raised("ValueError")

define_layers(arch) ==
    LET n == lower(arch) IN
    IF n = Simple THEN simple_network
    ELSE IF n = Expanded THEN expanded_network
    ELSE IF n = Resnet THEN resnet_network
    ELSE Raised("ValueError")

define_loss == "CrossEntropyLoss"

define_optimizer(neural_network) == "Adam"

\* ------------------------------------------------------------------ main.py

\* A DataLoader over n samples with drop_last left False: the batches, in the
\* order drawn. shuffle=True draws them in another order, which no sum over
\* the batches depends on.
DataLoader(n, batch_size) ==
    [k \in 1..((n + batch_size - 1) \div batch_size) |->
        {i \in 1..n : (i - 1) \div batch_size = k - 1}]

\* correct after the batches k..len(dataloader) were added to it
RECURSIVE CountCorrect(_, _, _, _)
CountCorrect(hits, dataloader, k, correct) ==
    IF k > Len(dataloader) THEN correct
    ELSE CountCorrect(hits, dataloader, k + 1,
                      correct + Cardinality(dataloader[k] \cap hits))

\* A quotient p / q, kept exact.
Ratio(p, q) == [num |-> p, den |-> q]
Geq(x, y) == x.num * y.den >= y.num * x.den

\* test: hits are the samples whose label model.predict returns.
test(hits, batch_arg, dataloader) ==
    LET correct == CountCorrect(hits, dataloader, 1, 0) IN
    IF Len(dataloader) * batch_arg = 0 THEN Raised("ZeroDivisionError")
    ELSE Ratio(correct * 100, Len(dataloader) * batch_arg)

\* counts after labels[k..] were counted
RECURSIVE CountLabels(_, _, _)
CountLabels(labels, k, counts) ==
    IF k > Len(labels) THEN counts
    ELSE CountLabels(labels, k + 1,
                     [counts EXCEPT ![labels[k]] = counts[labels[k]] + 1])

RECURSIVE sum(_, _)
sum(counts, k) == IF k > 6 THEN 0 ELSE counts[k] + sum(counts, k + 1)

\* dataset_details: counts is indexed 0..6 as the Python list is; the printed
\* percentages divide by total.
dataset_details(title, labels) ==
    LET counts == CountLabels(labels, 1, [k \in 0..6 |-> 0])
        total == sum(counts, 0) IN
    IF total = 0 THEN Raised("ZeroDivisionError")
    ELSE [total |-> total, counts |-> counts]

\* NeuralNetwork.__init__ with the arguments a it gives define_layers: a call
\* that does not bind the one required parameter raises TypeError before the
\* body of define_layers runs.
NeuralNetwork(a) ==
    LET layers == IF Len(a) # 1 THEN Raised("TypeError") ELSE define_layers(a[1]) IN
    IF IsRaised(layers) THEN layers
    ELSE [layers |-> layers, loss |-> define_loss,
          optimizer |-> define_optimizer(layers)]

\* ---------------------------------------------------------------- the disk
\* A model is [id, correct]: id 0 is the model of a checkpoint main found on
\* the disk, id k > 0 the model built in attempt k; correct is the number of
\* test samples it predicts correctly (the same at every test of it).

NoFile == [exists |-> FALSE]
Checkpoint(model, loadable) ==
    [exists |-> TRUE, id |-> model.id, correct |-> model.correct, loadable |-> loadable]
\* A run directory or parameter text written for the model with this id.
About(id) == [exists |-> TRUE, id |-> id]
\* runs/Current as SummaryWriter creates it, before anything is logged.
Opened == [exists |-> TRUE, opened |-> TRUE]

Dirs == {"Models", "runs", "Graphs", "ModelParameters"}

NoDisk ==
    [dirs |-> {}, ckpt |-> NoFile, current |-> NoFile, run |-> NoFile, params |-> NoFile]

\* The directories the files of d lie in.
Holding(d) ==
    (IF d.ckpt.exists THEN {"Models"} ELSE {})
    \cup (IF d.current.exists \/ d.run.exists THEN {"runs"} ELSE {})
    \cup (IF d.params.exists THEN {"ModelParameters"} ELSE {})

\* The disks main may find: no directory is there without a file in it.
Disks ==
    { d \in [ dirs : SUBSET Dirs,
              ckpt : {NoFile} \cup { Checkpoint([id |-> 0, correct |-> c], l) :
                                       c \in 0..TestSize, l \in BOOLEAN },
              current : {NoFile, Opened},
              run : {NoFile, About(0)},
              params : {NoFile, About(0)} ] :
        d.dirs = Holding(d) }

\* ---------------------------------------------------------------- main

\* line 253
refuses_lowercase(n) == n = "current"
refuses(n) == n = "Current"

\* lines 266-267
range_att_load_only(l, a) == IF l THEN 1 ELSE a
range_att(l, a) == IF l \/ a < 1 THEN 1 ELSE a

\* line 321: whether the new model is compared with an existing checkpoint
compares_whenever_exists(l, exists) == exists
compares(l, exists) == ~l /\ exists

\* line 328: whether the existing checkpoint is kept
keeps_on_greater(existing_accuracy, accuracy) ==
    ~Geq(accuracy, existing_accuracy)
keeps(existing_accuracy, accuracy) == Geq(existing_accuracy, accuracy)

\* lines 331-333: the run of a model that is not saved is closed and deleted
discard_leaves_current(d) == d
discard(d) == [d EXCEPT !.current = NoFile]

\* lines 339-363: the checkpoint, the run and the parameter text of the model
save(d, model) ==
    [d EXCEPT !.ckpt = Checkpoint(model, TRUE),
              !.run = About(model.id),
              !.current = NoFile,
              !.params = About(model.id),
              !.dirs = @ \cup {"Graphs", "ModelParameters"}]

\* The accuracy test measures for a model that predicts correct samples right.
Accuracy(correct) == test(1..correct, batch, DataLoader(TestSize, batch))

NoAttempt ==
    [outcome |-> "none", tested |-> "none", model |-> [id |-> 0, correct |-> 0],
     trained |-> 0, compared |-> FALSE, raised |-> FALSE, events |-> << >>,
     before |-> NoDisk, net |-> Pending]

Times(n, e) == [i \in 1..n |-> e]

\* One iteration of the attempt loop, lines 268-363, where a freshly built
\* model would predict correct test samples right once trained.
Iteration(correct) ==
    LET k == attempt + 1
        d1 == [disk EXCEPT !.dirs = @ \cup {"runs"}, !.current = Opened]
        try_load == load /\ disk.ckpt.exists
        net_l == NeuralNetwork(layers_args)
        loaded == try_load /\ ~IsRaised(net_l) /\ disk.ckpt.loadable
        no_model == ~loaded
        net == IF no_model THEN NeuralNetwork(layers_args) ELSE net_l
        ev1 == <<"SummaryWriter">>
               \o (IF try_load THEN <<"NeuralNetwork">> ELSE << >>)
               \o (IF try_load /\ ~IsRaised(net_l) THEN <<"load_state_dict">> ELSE << >>)
               \o (IF no_model THEN <<"NeuralNetwork">> ELSE << >>)
    IN
    IF IsRaised(net)
    THEN [pc |-> "raised", disk |-> d1,
          last |-> [NoAttempt EXCEPT !.outcome = "raised", !.events = ev1,
                                     !.before = disk, !.net = net]]
    ELSE
    LET model == IF loaded THEN [id |-> disk.ckpt.id, correct |-> disk.ckpt.correct]
                 ELSE [id |-> k, correct |-> correct]
        trained == IF no_model /\ epochs > 0 THEN epochs ELSE 0
        accuracy == Accuracy(model.correct)
        d2 == [d1 EXCEPT !.dirs = @ \cup {"Models"}]
        compared == compares(load, d2.ckpt.exists)
        existing == NeuralNetwork(layers_args)
        existing_accuracy == Accuracy(d2.ckpt.correct)
        raised == compared /\ (IsRaised(existing) \/ ~d2.ckpt.loadable
                               \/ IsRaised(existing_accuracy))
        kept == compared /\ ~raised /\ keeps(existing_accuracy, accuracy)
        ev2 == ev1 \o Times(trained, "optimize") \o <<"test">>
               \o (IF compared THEN <<"existing.NeuralNetwork">> ELSE << >>)
               \o (IF compared /\ ~IsRaised(existing)
                   THEN <<"existing.load_state_dict">> ELSE << >>)
               \o (IF compared /\ ~IsRaised(existing) /\ d2.ckpt.loadable
                   THEN <<"existing.test">> ELSE << >>)
        done == [NoAttempt EXCEPT !.tested = IF loaded THEN "checkpoint" ELSE "fresh",
                                  !.model = model, !.trained = trained,
                                  !.compared = compared, !.raised = raised,
                                  !.before = disk, !.net = net]
    IN
    IF kept
    THEN [pc |-> IF k < att THEN "loop" ELSE "done", disk |-> discard(d2),
          last |-> [done EXCEPT !.outcome = "kept", !.events = ev2 \o <<"rmtree">>]]
    ELSE [pc |-> IF k < att THEN "loop" ELSE "done", disk |-> save(d2, model),
          last |-> [done EXCEPT !.outcome = "saved",
                                !.events = ev2 \o <<"save", "rename", "parameter_text_generator">>]]

Max(x, y) == IF x >= y THEN x ELSE y

\* main up to the attempt loop, lines 252-267.
Main ==
    /\ pc = "main"
    /\ IF refuses(name)
       THEN /\ pc' = "returned"
            /\ UNCHANGED <<att, data>>
       ELSE /\ data' = "read"
            /\ att' = range_att(load, att)
            /\ pc' = IF att' >= 1 THEN "loop" ELSE "done"
    /\ UNCHANGED <<attempts, name, epochs, batch, load, layers_args, attempt, disk, disk0,
                   last, best, call, ret>>

\* One iteration of for attempt in range(0, att), lines 268-363.
Attempt ==
    /\ pc = "loop"
    /\ \E correct \in 0..TestSize :
         LET r == Iteration(correct) IN
         /\ pc' = r.pc
         /\ disk' = r.disk
         /\ last' = r.last
         /\ best' = IF r.last.tested = "none" THEN best
                    ELSE Max(best, r.last.model.correct)
    /\ attempt' = attempt + 1
    /\ UNCHANGED <<args, data, disk0, call, ret>>

InitMain ==
    /\ name \in {"Model", "Current"}
    /\ epochs \in 0..MaxEpochs
    /\ batch \in 1..MainBatch
    /\ load \in BOOLEAN
    /\ attempts \in 0..MaxAtt
    /\ att = attempts
    /\ pc = "main"
    /\ data = "unread"
    /\ attempt = 0
    /\ disk \in Disks
    /\ disk0 = disk
    /\ last = NoAttempt
    /\ best = IF disk.ckpt.exists THEN disk.ckpt.correct ELSE 0
    /\ call = NoCall
    /\ ret = Pending

\* The source: NeuralNetwork.__init__ calls model_builder.define_layers().
Init ==
    /\ InitMain
    /\ layers_args = << >>

\* The hypothesis that model construction succeeds: define_layers is given
\* the name of an architecture.
InitBuilt ==
    /\ InitMain
    /\ layers_args \in { <<Simple>>, <<Cased(Resnet, {1, 4})>> }

Next == Main \/ Attempt

Spec == Init /\ [][Next]_vars

SpecBuilt == InitBuilt /\ [][Next]_vars

\* ------------------------------------------------------------- pure calls

\* The words whose case variants are given to define_layers.
Words == { Simple, Expanded, Resnet, << >>, <<"s","i","m","p","l">>,
           <<"r","e","s","n","e","t","1","8">>, <<"v","g","g">>,
           <<"s","i","m","p","l","e"," ">> }

LayerCalls ==
    { [fn |-> "define_layers", name |-> Cased(w[1], w[2])] :
        w \in UNION { {<<word, mask>> : mask \in SUBSET (1..Len(word))} : word \in Words } }

TestCalls ==
    { [fn |-> "test", n |-> c[1], batch |-> c[2], hits |-> c[3]] :
        c \in UNION { {<<n, b, h>> : b \in 1..MaxBatch, h \in SUBSET (1..n)} : n \in 1..MaxN } }

RECURSIVE Seqs(_, _)
Seqs(S, n) ==
    IF n = 0 THEN { << >> }
    ELSE Seqs(S, n - 1) \cup { Append(s, x) : s \in Seqs(S, n - 1), x \in S }

DetailCalls ==
    { [fn |-> "dataset_details", labels |-> l] : l \in Seqs(0..6, MaxLabels) }

\* main is not running while a function is called on its own.
InitFn ==
    /\ call \in LayerCalls \cup TestCalls \cup DetailCalls
    /\ ret = Pending
    /\ name = "Model" /\ epochs = 0 /\ batch = 1 /\ load = FALSE
    /\ attempts = 1 /\ att = 1
    /\ layers_args = << >>
    /\ pc = "idle" /\ data = "unread" /\ attempt = 0
    /\ disk = NoDisk
    /\ disk0 = disk
    /\ last = NoAttempt
    /\ best = 0

Call_define_layers ==
    /\ call.fn = "define_layers"
    /\ ret = Pending
    /\ ret' = define_layers(call.name)
    /\ UNCHANGED <<call, mainvars>>

Call_test ==
    /\ call.fn = "test"
    /\ ret = Pending
    /\ ret' = test(call.hits, call.batch, DataLoader(call.n, call.batch))
    /\ UNCHANGED <<call, mainvars>>

Call_dataset_details ==
    /\ call.fn = "dataset_details"
    /\ ret = Pending
    /\ ret' = dataset_details("Testing", call.labels)
    /\ UNCHANGED <<call, mainvars>>

NextFn == Call_define_layers \/ Call_test \/ Call_dataset_details

SpecFn == InitFn /\ [][NextFn]_vars

\* ------------------------------------------------------------------ claims

Completed == last.outcome \in {"kept", "saved"}

\* Every checkpoint the run meets loads: the one main found does, and the
\* ones main saves are built by the same model_builder.
CheckpointsLoad == disk0.ckpt.exists => disk0.ckpt.loadable

IsModel(ckpt, model) ==
    ckpt.exists /\ ckpt.id = model.id /\ ckpt.correct = model.correct

Variants(word) == { Cased(word, mask) : mask \in SUBSET (1..Len(word)) }

\* C2: define_layers returns the simple network for "simple", the expanded
\* network for "expanded" and the ResNet18 network for "resnet", whatever the
\* case of the letters, and raises ValueError for every other name.
C2_ArchitectureByName ==
    (call.fn = "define_layers" /\ ret # Pending) =>
        ret = IF call.name \in Variants(Simple) THEN simple_network
              ELSE IF call.name \in Variants(Expanded) THEN expanded_network
              ELSE IF call.name \in Variants(Resnet) THEN resnet_network
              ELSE Raised("ValueError")

\* C2's case: a name in mixed case was given its network.
C2_Witness ==
    /\ call.fn = "define_layers"
    /\ call.name = <<"R","e","s","N","e","t">>
    /\ ret = resnet_network

\* C3: constructing NeuralNetwork() completes without raising, with the
\* layers, loss and optimizer model_builder defines.
C3_ConstructionCompletes ==
    last.outcome # "none" =>
        /\ ~IsRaised(last.net)
        /\ last.net.layers \in {simple_network, expanded_network, resnet_network}
        /\ last.net.loss = define_loss
        /\ last.net.optimizer = define_optimizer(last.net.layers)

\* C4: test returns 100 * correct / N for a dataset of N samples, whatever
\* the batch size.
C4_AccuracyPerSample ==
    (call.fn = "test" /\ ret # Pending) =>
        /\ ~IsRaised(ret)
        /\ ret.num * call.n = 100 * Cardinality(call.hits) * ret.den

\* C5: main called with the name "Current" returns at once: Data.csv is not
\* read, no model is built, loaded, trained or tested, and the disk is as it
\* was.
C5_CurrentRefused ==
    name = "Current" =>
        /\ pc \in {"main", "returned"}
        /\ data = "unread"
        /\ attempt = 0
        /\ last = NoAttempt
        /\ disk = disk0

\* C5's case: the refusal, with a checkpoint to load on the disk.
C5_Witness ==
    /\ name = "Current" /\ pc = "returned"
    /\ load /\ disk.ckpt.exists /\ attempts >= 2

Count(events, e) == Cardinality({i \in 1..Len(events) : events[i] = e})

Expected == IF load \/ attempts < 1 THEN 1 ELSE attempts

Before(events, e, f) ==
    \A i, j \in 1..Len(events) : (events[i] = e /\ events[j] = f) => i < j

\* C7: the model an attempt tests is the checkpoint exactly when the load
\* flag is set, the file exists and it loads; otherwise a freshly built model
\* is used, and the run does not abort. A fresh model is trained for epochs
\* epochs before the test, a loaded one is not trained.
C7_LoadedOrFresh ==
    last.outcome # "none" =>
        /\ last.tested =
             IF load /\ last.before.ckpt.exists /\ last.before.ckpt.loadable
             THEN "checkpoint" ELSE "fresh"
        /\ last.trained = IF last.tested = "fresh" THEN epochs ELSE 0
        /\ Count(last.events, "optimize") = last.trained
        /\ Before(last.events, "optimize", "test")

C9_TotalOfLabels ==
    (call.fn = "dataset_details" /\ ret # Pending) =>
        /\ ~IsRaised(ret)
        /\ ret.total = Len(call.labels)
        /\ \A k \in 0..6 :
             ret.counts[k] = Cardinality({i \in 1..Len(call.labels) : call.labels[i] = k})
        /\ sum(ret.counts, 0) = ret.total

SameModel(d) ==
    /\ d.ckpt.exists /\ d.run.exists /\ d.params.exists
    /\ d.run.id = d.ckpt.id
    /\ d.params.id = d.ckpt.id

====
